---- MODULE Spec2Model ----
(***************************************************************************)
(* Model of the Todo Assessment API (backend/app): the "task" table, the   *)
(* per-request database session of get_db, the three task routes, the      *)
(* health route and the startup probe of on_startup.                       *)
(*                                                                         *)
(* backend/app/crud.py and backend/app/schemas.py are not part of the      *)
(* sources at hand; the three crud functions the routes call are modelled  *)
(* from the written description of the data-access layer.                  *)
(***************************************************************************)
EXTENDS Integers, Sequences, FiniteSets, TLC

\* ------------------------------------------------------------------ bounds
MaxTasks == 2        \* rows the table may hold
MaxSessions == 3     \* requests that need a session, in one behaviour
MaxLimit == 1        \* largest explicit ?limit= a client sends
MaxClock == 1        \* readings of the database server's clock: 0..MaxClock
MaxInFlight == 2     \* requests in flight at the same time

\* ------------------------------------------------------- program constants
DefaultLimit == 5    \* list_tasks(limit: int = 5)
MaxAttempts == 15    \* for attempt in range(15)
LastAttempt == 14    \* if attempt < 14: log and sleep

\* The bodies the clients POST (those of the repository's tests): the
\* description is optional.
NoDescription == "None"
Payloads == {[title |-> "Task 1", description |-> "desc"],
             [title |-> "ToComplete", description |-> NoDescription]}
TaskIds == 1..(MaxTasks + 1)
Limits == (0..MaxLimit) \cup {DefaultLimit}

VARIABLES
    task,            \* the rows of table "task"
    nextId,          \* the table's AUTO_INCREMENT counter
    now,             \* the database server's clock (func.now()) when last read
    dbUp,            \* whether the database accepts connections
    schemaExists,    \* whether table "task" has been created
    pc,              \* per request in flight: handler, exit_ok, exit_notfound, exit_error
    session,         \* per request in flight: the session get_db yielded
    arrived,         \* how many requests that depend on get_db have arrived
    openSessions,    \* sessions created and not yet closed
    sessionsOpened,  \* how many sessions SessionLocal() has created
    resp,            \* the response the last step sent (NoResp: it sent none)
    lastOp,          \* the last operation that reached the table
    completedResp,   \* id -> the task returned by the first successful complete
    startPc,         \* on_startup: connect, sleep, create_all, done, failed
    attempt,         \* on_startup's loop variable
    connected,       \* on_startup left the loop through break
    log              \* what on_startup logged

storeVars == <<task, nextId, now>>
sessionVars == <<pc, session, arrived, openSessions, sessionsOpened>>
startupVars == <<startPc, attempt, connected, log, schemaExists>>
vars == <<task, nextId, now, dbUp, schemaExists, pc, session, arrived, openSessions,
          sessionsOpened, resp, lastOp, completedResp, startPc, attempt,
          connected, log>>

Min(a, b) == IF a <= b THEN a ELSE b

\* ------------------------------------------------------------ models.Task
\* A new row: the caller gives title and description, the column default
\* gives completed, the server default gives created_at, the primary key
\* takes the table's next AUTO_INCREMENT value.
NewTaskCompletedByDefault(i, title, description, ts) ==
    [id |-> i, title |-> title, description |-> description,
     completed |-> TRUE, created_at |-> ts]

NewTaskWithoutPrimaryKey(i, title, description, ts) ==
    [id |-> 1, title |-> title, description |-> description,
     completed |-> FALSE, created_at |-> ts]

NewTask(i, title, description, ts) ==
    [id |-> i, title |-> title, description |-> description,
     completed |-> FALSE, created_at |-> ts]

\* ------------------------------------------------------------------- crud
\* ORDER BY id DESC
RECURSIVE OrderByIdDesc(_)
OrderByIdDesc(rows) ==
    IF rows = {} THEN <<>>
    ELSE LET m == CHOOSE r \in rows : \A q \in rows : q.id <= r.id
         IN  <<m>> \o OrderByIdDesc(rows \ {m})

\* LIMIT n
Take(s, n) == SubSeq(s, 1, Min(n, Len(s)))

\* crud.create_task: the row the insert adds (and returns after refresh),
\* the server's clock reading ts at the insert
CrudCreateTask(title, description, ts) == NewTask(nextId, title, description, ts)

\* crud.get_recent_tasks: WHERE completed = false ORDER BY id DESC LIMIT limit
GetRecentTasks(rows, limit) ==
    Take(OrderByIdDesc({r \in rows : ~r.completed}), limit)

\* crud.mark_task_completed: the table after the update
MarkTaskCompleted(rows, task_id) ==
    {IF r.id = task_id THEN [r EXCEPT !.completed = TRUE] ELSE r : r \in rows}

\* crud.mark_task_completed: the rows the lookup by id finds
FindTask(rows, task_id) == {r \in rows : r.id = task_id}

\* -------------------------------------------------------------- responses
NoOp == [op |-> "none", id |-> 0, title |-> ""]
NoResp == [kind |-> "none", arg |-> 0, status |-> 0, detail |-> "",
           body |-> <<>>, prev |-> NoOp, storeUp |-> TRUE]

Response(kind, arg, status, detail, body) ==
    [kind |-> kind, arg |-> arg, status |-> status, detail |-> detail,
     body |-> body, prev |-> lastOp, storeUp |-> dbUp]

\* ----------------------------------------------------------------- routes
\* POST /tasks
create_task(title, description, ts) ==
    Response("create", 0, 200, "", <<CrudCreateTask(title, description, ts)>>)

\* GET /tasks?limit=N
list_tasks_ignoring_limit(limit) ==
    Response("list", limit, 200, "", GetRecentTasks(task, DefaultLimit))

list_tasks_oldest_first(limit) ==
    LET s == OrderByIdDesc({r \in task : ~r.completed})
    IN  Response("list", limit, 200, "",
                 Take([i \in 1..Len(s) |-> s[Len(s) + 1 - i]], limit))

list_tasks_including_completed(limit) ==
    Response("list", limit, 200, "", Take(OrderByIdDesc(task), limit))

list_tasks(limit) ==
    Response("list", limit, 200, "", GetRecentTasks(task, limit))

\* PATCH /tasks/{task_id}/complete
complete_task_no_check(task_id) ==
    LET found == FindTask(MarkTaskCompleted(task, task_id), task_id)
    IN  Response("complete", task_id, 200, "",
                 IF found = {} THEN <<>> ELSE <<CHOOSE r \in found : TRUE>>)

complete_task_rejects_repeat(task_id) ==
    LET before == FindTask(task, task_id)
        found == FindTask(MarkTaskCompleted(task, task_id), task_id)
    IN  IF found = {} \/ (\E r \in before : r.completed)
        THEN Response("complete", task_id, 404, "Task not found", <<>>)
        ELSE Response("complete", task_id, 200, "", <<CHOOSE r \in found : TRUE>>)

complete_task(task_id) ==
    LET found == FindTask(MarkTaskCompleted(task, task_id), task_id)
    IN  IF found = {}
        THEN Response("complete", task_id, 404, "Task not found", <<>>)
        ELSE Response("complete", task_id, 200, "", <<CHOOSE r \in found : TRUE>>)

\* GET /api/health
health_check_probing_store ==
    IF dbUp THEN Response("health", 0, 200, "ok", <<>>)
    ELSE Response("health", 0, 503, "unavailable", <<>>)

health_check == Response("health", 0, 200, "ok", <<>>)

\* ----------------------------------------------------------------- get_db
\* finally: db.close()
CloseOnSuccessOnly(open, s, exit) == IF exit = "exit_ok" THEN open \ {s} ELSE open

CloseSession(open, s, exit) == open \ {s}

\* ------------------------------------------------------------- on_startup
\* The lines logger.info writes.
RetryMessage(n) == [msg |-> "Database not ready, retrying...", n |-> n]
ConnectedMessage == [msg |-> "Database connection successful", n |-> 0]
TablesMessage == [msg |-> "Database tables created", n |-> 0]

\* Base.metadata.create_all(bind=engine): connects, so it raises
\* OperationalError when the database does not accept connections.
CreateAllSwallowingErrors(up) == "done"

CreateAllOutcome(up) == IF up THEN "done" ELSE "failed"

\* ------------------------------------------------------------------- Init
InitCommon ==
    /\ task = {}
    /\ nextId = 1
    /\ now = 0
    /\ pc = <<>>
    /\ session = <<>>
    /\ arrived = 0
    /\ openSessions = {}
    /\ sessionsOpened = 0
    /\ resp = NoResp
    /\ lastOp = NoOp
    /\ completedResp = <<>>

\* The application after on_startup has returned: it serves requests.
Init ==
    /\ InitCommon
    /\ dbUp = TRUE
    /\ schemaExists = TRUE
    /\ startPc = "done"
    /\ attempt = 0
    /\ connected = TRUE
    /\ log = <<ConnectedMessage, TablesMessage>>

\* The process as on_startup begins: the database may be up or not yet, and
\* the table may exist from an earlier run.
StartupInit ==
    /\ InitCommon
    /\ dbUp \in BOOLEAN
    /\ schemaExists \in BOOLEAN
    /\ startPc = "connect"
    /\ attempt = 0
    /\ connected = FALSE
    /\ log = <<>>

\* ------------------------------------------------------------ environment
\* The database starts or stops accepting connections.
StoreFlip ==
    /\ dbUp' = ~dbUp
    /\ resp' = NoResp
    /\ UNCHANGED <<storeVars, sessionVars, startupVars, lastOp, completedResp>>

\* --------------------------------------------------------------- requests
\* Requests are numbered in order of arrival; pc and session are defined on
\* the requests in flight.
InFlight == DOMAIN pc

\* get_db up to its yield: db = SessionLocal()
SessionLocal(n) == n + 1

OpenSession ==
    /\ startPc = "done"
    /\ Cardinality(InFlight) < MaxInFlight
    /\ arrived < MaxSessions
    /\ LET r == arrived + 1
           db == SessionLocal(sessionsOpened)
       IN  /\ arrived' = r
           /\ sessionsOpened' = sessionsOpened + 1
           /\ session' = [q \in InFlight \cup {r} |-> IF q = r THEN db ELSE session[q]]
           /\ openSessions' = openSessions \cup {db}
           /\ pc' = [q \in InFlight \cup {r} |-> IF q = r THEN "handler" ELSE pc[q]]
    /\ resp' = NoResp
    /\ UNCHANGED <<storeVars, dbUp, startupVars, lastOp, completedResp>>

\* get_db after its yield: the finally clause
ReleaseSession(r) ==
    /\ pc[r] \in {"exit_ok", "exit_notfound", "exit_error"}
    /\ openSessions' = CloseSession(openSessions, session[r], pc[r])
    /\ session' = [q \in InFlight \ {r} |-> session[q]]
    /\ pc' = [q \in InFlight \ {r} |-> pc[q]]
    /\ resp' = NoResp
    /\ UNCHANGED <<storeVars, dbUp, arrived, sessionsOpened, startupVars, lastOp,
                   completedResp>>

CreateTask(r) ==
    /\ pc[r] = "handler"
    /\ dbUp
    /\ nextId <= MaxTasks
    /\ \E body \in Payloads, ts \in now..MaxClock :
         LET out == create_task(body.title, body.description, ts)
             row == out.body[1]
         IN  /\ resp' = out
             /\ task' = task \cup {row}
             /\ now' = ts
             /\ lastOp' = [op |-> "create", id |-> row.id, title |-> row.title]
    /\ nextId' = nextId + 1
    /\ pc' = [pc EXCEPT ![r] = "exit_ok"]
    /\ UNCHANGED <<dbUp, session, openSessions, arrived, sessionsOpened,
                   startupVars, completedResp>>

ListTasks(r) ==
    /\ pc[r] = "handler"
    /\ dbUp
    /\ \E limit \in Limits : resp' = list_tasks(limit)
    /\ lastOp' = [op |-> "list", id |-> 0, title |-> ""]
    /\ pc' = [pc EXCEPT ![r] = "exit_ok"]
    /\ UNCHANGED <<storeVars, dbUp, session, openSessions, arrived, sessionsOpened,
                   startupVars, completedResp>>

CompleteTask(r) ==
    /\ pc[r] = "handler"
    /\ dbUp
    /\ \E task_id \in TaskIds :
         LET out == complete_task(task_id)
         IN  /\ resp' = out
             /\ task' = MarkTaskCompleted(task, task_id)
             /\ lastOp' = [op |-> IF out.status = 200 THEN "complete" ELSE "complete_absent",
                            id |-> 0, title |-> ""]
             /\ completedResp' =
                  IF out.status = 200 /\ out.body # <<>> /\ task_id \notin DOMAIN completedResp
                  THEN [i \in DOMAIN completedResp \cup {task_id} |->
                          IF i = task_id THEN out.body[1] ELSE completedResp[i]]
                  ELSE completedResp
             /\ pc' = [pc EXCEPT ![r] =
                         IF out.status = 200 THEN "exit_ok" ELSE "exit_notfound"]
    /\ UNCHANGED <<nextId, now, dbUp, session, openSessions, arrived, sessionsOpened,
                   startupVars>>

\* The database is unreachable when the handler's query runs: the
\* OperationalError propagates and the client gets a 500.
StorageFault(r) ==
    /\ pc[r] = "handler"
    /\ ~dbUp
    /\ resp' = Response("fault", 0, 500, "Internal Server Error", <<>>)
    /\ pc' = [pc EXCEPT ![r] = "exit_error"]
    /\ UNCHANGED <<storeVars, dbUp, session, openSessions, arrived, sessionsOpened,
                   startupVars, lastOp, completedResp>>

HealthCheck ==
    /\ startPc = "done"
    /\ resp' = health_check
    /\ UNCHANGED <<storeVars, dbUp, sessionVars, startupVars, lastOp, completedResp>>

\* ------------------------------------------------------------- on_startup
\* The for statement takes the next value of range(15), or ends.
NextAttempt ==
    IF attempt + 1 < MaxAttempts
    THEN /\ attempt' = attempt + 1
         /\ startPc' = "connect"
    ELSE /\ startPc' = "create_all"
         /\ UNCHANGED attempt

\* One pass through the try statement: engine.connect(), conn.close().
Connect ==
    /\ startPc = "connect"
    /\ IF dbUp
       THEN /\ log' = Append(log, ConnectedMessage)
            /\ connected' = TRUE
            /\ startPc' = "create_all"
            /\ UNCHANGED attempt
       ELSE /\ UNCHANGED connected
            /\ IF attempt < LastAttempt
               THEN /\ log' = Append(log, RetryMessage(attempt + 1))
                    /\ startPc' = "sleep"
                    /\ UNCHANGED attempt
               ELSE /\ UNCHANGED log
                    /\ NextAttempt
    /\ UNCHANGED <<storeVars, dbUp, schemaExists, sessionVars, resp, lastOp, completedResp>>

\* time.sleep(1) returns.
Sleep ==
    /\ startPc = "sleep"
    /\ NextAttempt
    /\ UNCHANGED <<storeVars, dbUp, schemaExists, connected, log, sessionVars, resp,
                   lastOp, completedResp>>

\* Base.metadata.create_all(bind=engine), then the last log line.
CreateAll ==
    /\ startPc = "create_all"
    /\ startPc' = CreateAllOutcome(dbUp)
    /\ IF startPc' = "done"
       THEN /\ schemaExists' = TRUE
            /\ log' = Append(log, TablesMessage)
       ELSE UNCHANGED <<schemaExists, log>>
    /\ UNCHANGED <<storeVars, dbUp, attempt, connected, sessionVars, resp, lastOp,
                   completedResp>>

Next ==
    \/ OpenSession
    \/ \E r \in InFlight : CreateTask(r)
    \/ \E r \in InFlight : ListTasks(r)
    \/ \E r \in InFlight : CompleteTask(r)
    \/ \E r \in InFlight : StorageFault(r)
    \/ \E r \in InFlight : ReleaseSession(r)
    \/ HealthCheck
    \/ StoreFlip

Spec == Init /\ [][Next]_vars

StartupNext ==
    \/ Connect
    \/ Sleep
    \/ CreateAll
    \/ StoreFlip

StartupSpec == StartupInit /\ [][StartupNext]_vars

\* ================================================================== claims
Ids(rows) == {r.id : r \in rows}
Incomplete == {r \in task : ~r.completed}
RetriesLogged == Cardinality({i \in DOMAIN log : log[i].msg = RetryMessage(0).msg})
Exhausted == ~connected /\ startPc \in {"create_all", "done", "failed"}

\* C1: when a list with limit >= 1 is the first operation on the table after
\* a create, the first task of its response is the task that create made:
\* the same id and the same title.
C1_CreatedTaskListedFirst ==
    (resp.kind = "list" /\ resp.status = 200 /\ resp.arg >= 1 /\ resp.prev.op = "create")
    => /\ Len(resp.body) >= 1
       /\ resp.body[1].id = resp.prev.id
       /\ resp.body[1].title = resp.prev.title

C1_Witness ==
    /\ resp.kind = "list" /\ resp.arg >= 1 /\ resp.prev.op = "create"
    /\ Cardinality(Incomplete) = 2
    /\ resp.body[1].id = 2

\* C2: no list response, whatever its limit and whatever was created or
\* completed before it, holds a task whose id a complete has answered with
\* success.
C2_CompletedNeverListed ==
    resp.kind = "list" =>
        \A i \in 1..Len(resp.body) : resp.body[i].id \notin DOMAIN completedResp

C2_Witness ==
    /\ resp.kind = "list"
    /\ resp.arg >= 1
    /\ \E r \in task : r.completed /\ r.id \in DOMAIN completedResp

\* C3: with the database reachable, complete on an id no row has answers 404
\* with detail "Task not found", and the table is left as it was.
C3_CompleteAbsentIsNotFound ==
    [][(resp'.kind = "complete" /\ dbUp /\ resp'.arg \notin Ids(task))
       => /\ resp'.status = 404
          /\ resp'.detail = "Task not found"
          /\ resp'.body = <<>>
          /\ task' = task
          /\ nextId' = nextId]_vars

C3_Witness ==
    /\ resp.kind = "complete" /\ resp.status = 404
    /\ resp.arg \notin Ids(task)
    /\ Incomplete # {}

\* C4: a list response for limit N holds exactly the min(N, number of
\* incomplete tasks) incomplete tasks with the largest ids, by strictly
\* descending id; it is empty when no task is incomplete.
C4_ListIsNewestIncomplete ==
    (resp.kind = "list" /\ resp.status = 200) =>
        LET b == resp.body
        IN  /\ Len(b) = Min(resp.arg, Cardinality(Incomplete))
            /\ Len(b) <= resp.arg
            /\ \A i \in 1..Len(b) : b[i] \in Incomplete
            /\ \A i \in 1..(Len(b) - 1) : b[i].id > b[i + 1].id
            /\ \A r \in Incomplete :
                 (\A i \in 1..Len(b) : b[i] # r) => \A i \in 1..Len(b) : r.id < b[i].id
            /\ (Incomplete = {} => b = <<>>)

C4_Witness ==
    /\ resp.kind = "list" /\ resp.arg = 1
    /\ Cardinality(Incomplete) = 2
    /\ Len(resp.body) = 1

\* C5: a row enters the table with completed = FALSE, and a row that is
\* completed stays in the table and stays completed in every step.
C5_CompletedIsMonotonic ==
    [][/\ \A q \in task' : q.id \notin Ids(task) => ~q.completed
       /\ \A r \in task : r.completed =>
            /\ \E q \in task' : q.id = r.id
            /\ \A q \in task' : q.id = r.id => q.completed]_vars

C5_Witness ==
    \E r, q \in task : r.completed /\ ~q.completed /\ q.id > r.id

\* C6 (as amended): the probe makes at most 15 attempts; when all fail, no
\* error leaves the loop, 14 retry lines and nothing else are logged, and
\* create_all runs next: startup ends normally if the database is reachable
\* then and ends in failure if it is not.
C6_ProbeThenCreateAll ==
    /\ [](attempt + 1 <= 15)
    /\ [](Exhausted => /\ attempt + 1 = 15
                       /\ RetriesLogged = 14
                       /\ \A i \in DOMAIN log : log[i] # ConnectedMessage)
    /\ [](startPc = "done" => schemaExists)
    /\ [][startPc = "create_all" /\ startPc' # "create_all"
          => startPc' = IF dbUp THEN "done" ELSE "failed"]_vars

C6_Witness == Exhausted /\ startPc = "failed"

\* C6 (as stated): when all 15 attempts have failed, the exhaustion is logged
\* and startup ends normally.
C6_ExhaustionLoggedAndNotFatal ==
    (Exhausted /\ startPc \in {"done", "failed"})
    => (startPc = "done" /\ RetriesLogged = 15)

\* C7: the sessions that are open are exactly the sessions of the requests
\* in flight, one per request and no two the same; so when no request is in
\* flight no session is open.
C7_SessionsClosedOnEveryExit ==
    /\ \A r \in InFlight : session[r] \in openSessions
    /\ \A r, q \in InFlight : r # q => session[r] # session[q]
    /\ Cardinality(openSessions) = Cardinality(InFlight)
    /\ (InFlight = {} => openSessions = {})

C7_Witness ==
    /\ InFlight = {}
    /\ openSessions = {}
    /\ sessionsOpened >= 2
    /\ lastOp.op = "complete_absent"

\* C8: the health route can answer in every state of the running
\* application, its answer is 200 {status: "ok"} whether the database is
\* reachable or not, and the step opens no session and leaves the table as
\* it was.
C8_HealthAlwaysOk ==
    /\ [](resp.kind = "health" => resp.status = 200 /\ resp.detail = "ok")
    /\ [](startPc = "done" => ENABLED HealthCheck)
    /\ [][resp'.kind = "health"
          => UNCHANGED <<task, nextId, now, pc, session, arrived, openSessions,
                         sessionsOpened>>]_vars

C8_Witness ==
    /\ resp.kind = "health"
    /\ ~resp.storeUp
    /\ task # {}
    /\ InFlight # {}

\* C9: ids are pairwise distinct; no step removes a row or changes a row's
\* id, title, description or created_at; a row is added only by create, one
\* per create, with an id above every id in the table; a row changes only
\* by complete on its id, and only in completed.
C9_RowsKeepIdentity ==
    /\ [](\A r, q \in task : r.id = q.id => r = q)
    /\ [][/\ \A r \in task : \E q \in task' :
                /\ q.id = r.id
                /\ q.title = r.title
                /\ q.description = r.description
                /\ q.created_at = r.created_at
          /\ \A q \in task' : q.id \notin Ids(task) =>
                /\ resp'.kind = "create"
                /\ resp'.body = <<q>>
                /\ \A r \in task : q.id > r.id
          /\ (resp'.kind = "create" /\ resp'.status = 200)
                => Cardinality(task') = Cardinality(task) + 1
          /\ \A r \in task :
                \/ r \in task'
                \/ /\ resp'.kind = "complete"
                   /\ resp'.arg = r.id
                   /\ [r EXCEPT !.completed = TRUE] \in task']_vars

C9_Witness ==
    /\ Cardinality(task) = 2
    /\ \E r, q \in task : r.completed /\ ~q.completed

\* C10: complete on an id that a complete has already answered with success
\* answers 200 with the same task as that first answer, and leaves the
\* table as it was.
C10_CompleteIsIdempotent ==
    [][(resp'.kind = "complete" /\ resp'.arg \in DOMAIN completedResp)
       => /\ resp'.status = 200
          /\ resp'.body = <<completedResp[resp'.arg]>>
          /\ task' = task
          /\ nextId' = nextId]_vars

C10_Witness ==
    /\ resp.kind = "complete" /\ resp.status = 200
    /\ resp.prev.op = "complete"
    /\ Cardinality(task) = 1


====
